---- MODULE Spec2Model ----
(***************************************************************************)
(* A model of the WPILOG decoding pipeline of cougar_analysis:             *)
(*   data_log_reader.py  DataLogReader, DataLogIterator, DataLogRecord     *)
(*   log_helpers.py      convert_data_log_to_list, extract_value_from_entry*)
(*                                                                         *)
(* Bytes are integers 0..255, a bytes object is a sequence of them (Python *)
(* index i is TLA+ index i+1).  A str is the sequence of its code points.  *)
(* Python integers are unbounded; the inputs of the model keep every       *)
(* decoded integer below 2^31.                                             *)
(***************************************************************************)
EXTENDS Integers, Sequences, FiniteSets, TLC

VARIABLES
    buf,         \* DataLogReader.buf / DataLogIterator.buf
    pos,         \* DataLogIterator.pos
    lastResult,  \* outcome of the latest __next__: "none", "record", "StopIteration", "IndexError"
    yielded,     \* the records __next__ has returned so far, in order
    reads,       \* the byte indices (0-based) the latest __next__ read from buf
    given,       \* how buf was built (the records encoded into it), for the framing claims
    validRes,    \* result of the latest isValid() call, "unset" before
    versionRes,  \* result of the latest getVersion() call, -1 before
    entries,     \* convert_data_log_to_list: the entries dict
    output,      \* convert_data_log_to_list: the output list
    error,       \* convert_data_log_to_list: the error variable
    pc,          \* convert_data_log_to_list: "loop", "returned" or "raised"
    raised,      \* the exception that left convert_data_log_to_list, "none" otherwise
    record,      \* the loop variable: the record of the latest iteration
    nrec         \* number of records the loop has taken from the reader

vars == <<buf, pos, lastResult, yielded, reads, given, validRes, versionRes,
          entries, output, error, pc, raised, record, nrec>>

iterVars == <<buf, pos, lastResult, yielded, reads, given>>
headVars == <<validRes, versionRes>>
walkVars == <<entries, output, error, pc, raised, record, nrec>>

(***************************************************************************)
(* Bounds of the model.                                                    *)
(***************************************************************************)
MaxBody == 8
MaxExtra == 2
MaxFramed == 3
MaxRecords == 5

(***************************************************************************)
(* Python primitives.                                                      *)
(***************************************************************************)
None == "None"

Min(a, b) == IF a < b THEN a ELSE b

\* s[a:b] for 0 <= a, 0 <= b: the slice is clamped to the object.
Slice(s, a, b) == SubSeq(s, a + 1, Min(b, Len(s)))

RECURSIVE BitOr(_, _)
BitOr(a, b) ==
    IF a = 0 THEN b
    ELSE IF b = 0 THEN a
    ELSE (IF a % 2 = 1 \/ b % 2 = 1 THEN 1 ELSE 0) + 2 * BitOr(a \div 2, b \div 2)

RECURSIVE BitAnd(_, _)
BitAnd(a, b) ==
    IF a = 0 \/ b = 0 THEN 0
    ELSE (IF a % 2 = 1 /\ b % 2 = 1 THEN 1 ELSE 0) + 2 * BitAnd(a \div 2, b \div 2)

Shl(a, n) == IF a = 0 THEN 0 ELSE a * 2^n
Shr(a, n) == a \div 2^n

\* int.from_bytes(bs, byteorder="little", signed=False)
RECURSIVE FromBytesLE(_)
FromBytesLE(bs) ==
    IF Len(bs) = 0 THEN 0
    ELSE IF Len(bs) = 1 THEN bs[1]
    ELSE bs[1] + (IF FromBytesLE(Tail(bs)) = 0 THEN 0 ELSE 256 * FromBytesLE(Tail(bs)))

(***************************************************************************)
(* DataLogReader: the global header.                                       *)
(***************************************************************************)
Magic == <<87, 80, 73, 76, 79, 71>>

getVersion(b) ==
    IF Len(b) < 12 THEN 0 ELSE FromBytesLE(Slice(b, 6, 8))

\* isValid with the version test off by one.
isValid_strictVersion(b) ==
    /\ Len(b) >= 12
    /\ Slice(b, 0, 6) = Magic
    /\ getVersion(b) > 256

isValid(b) ==
    /\ Len(b) >= 12
    /\ Slice(b, 0, 6) = Magic
    /\ getVersion(b) >= 256

\* DataLogReader.__iter__: the position of the first record.
IterStart(b) == 12 + FromBytesLE(Slice(b, 8, 12))

(***************************************************************************)
(* DataLogIterator.                                                        *)
(***************************************************************************)
\* The indices _readVarInt(p, n) reads.
VarIntReads(p, n) == { p + i : i \in 0 .. n - 1 }

\* _readVarInt(p, n) on buffer b; every index is in range when it is called here.
RECURSIVE readVarIntFrom(_, _, _, _, _)
readVarIntFrom(b, p, n, i, val) ==
    IF i >= n THEN val
    ELSE readVarIntFrom(b, p, n, i + 1, BitOr(val, Shl(b[p + i + 1], i * 8)))

readVarInt(b, p, n) == readVarIntFrom(b, p, n, 0, 0)

entryLenAt(b, p) == BitAnd(b[p + 1], 3) + 1
sizeLenAt(b, p) == BitAnd(Shr(b[p + 1], 2), 3) + 1
\* timestampLen masked with 0x3, as the two other widths are.
timestampLenAt_mask3(b, p) == BitAnd(Shr(b[p + 1], 4), 3) + 1
timestampLenAt(b, p) == BitAnd(Shr(b[p + 1], 4), 7) + 1
headerLenAt(b, p) == 1 + entryLenAt(b, p) + sizeLenAt(b, p) + timestampLenAt(b, p)

\* First test of __next__: fewer than 4 bytes left.
TooShortForAny(b, p) == Len(b) < p + 4

\* The header test off by one.
HeaderCut_offByOne(b, p) == Len(b) < p + headerLenAt(b, p) - 1

\* Second test of __next__: the header does not fit.
HeaderCut(b, p) == Len(b) < p + headerLenAt(b, p)

\* The payload test without the header length.
PayloadCut_noHeader(b, p, size) == Len(b) < p + size

\* Third test of __next__: the payload does not fit.
PayloadCut(b, p, size) == Len(b) < p + headerLenAt(b, p) + size

\* The indices the header reads of __next__ touch once the descriptor byte is known.
HeaderReads(b, p) ==
    {p} \cup VarIntReads(p + 1, headerLenAt(b, p) - 1)

\* The outcome of one __next__ call at cursor p:
\*   [res, pos, rec, reads], res one of "record", "StopIteration", "IndexError".
NextOutcome(b, p) ==
    IF TooShortForAny(b, p)
    THEN [res |-> "StopIteration", pos |-> p, rec |-> None, reads |-> {}]
    ELSE IF HeaderCut(b, p)
    THEN [res |-> "StopIteration", pos |-> p, rec |-> None, reads |-> {p}]
    ELSE IF \E i \in HeaderReads(b, p) : i >= Len(b)
    THEN [res |-> "IndexError", pos |-> p, rec |-> None,
          reads |-> HeaderReads(b, p)]
    ELSE LET entryLen == entryLenAt(b, p)
             sizeLen == sizeLenAt(b, p)
             timestampLen == timestampLenAt(b, p)
             headerLen == headerLenAt(b, p)
             entry == readVarInt(b, p + 1, entryLen)
             size == readVarInt(b, p + 1 + entryLen, sizeLen)
             timestamp == readVarInt(b, p + 1 + entryLen + sizeLen, timestampLen)
         IN IF PayloadCut(b, p, size)
            THEN [res |-> "StopIteration", pos |-> p, rec |-> None,
                  reads |-> HeaderReads(b, p)]
            ELSE [res |-> "record",
                  pos |-> p + headerLen + size,
                  rec |-> [entry |-> entry, timestamp |-> timestamp,
                           data |-> Slice(b, p + headerLen, p + headerLen + size)],
                  reads |-> HeaderReads(b, p)
                            \cup { i \in 0 .. Len(b) - 1 :
                                     /\ i >= p + headerLen
                                     /\ i < p + headerLen + size }]

\* One call of DataLogIterator.__next__.
IterNext ==
    /\ lastResult # "IndexError"
    /\ LET o == NextOutcome(buf, pos)
       IN /\ lastResult' = o.res
          /\ pos' = o.pos
          /\ reads' = o.reads
          /\ yielded' = IF o.res = "record" THEN Append(yielded, o.rec) ELSE yielded
    /\ UNCHANGED <<buf, given, headVars, walkVars>>

(***************************************************************************)
(* str(bytes, encoding="utf-8"): strict UTF-8 decoding to code points.     *)
(***************************************************************************)
IsCont(b) == b >= 128 /\ b <= 191

\* Length of the well-formed UTF-8 sequence at the head of bs, 0 if none.
Utf8SeqLen(bs) ==
    LET b1 == bs[1]
        n == Len(bs)
        c2 == n >= 2 /\ IsCont(bs[2])
        c3 == n >= 3 /\ IsCont(bs[3])
        c4 == n >= 4 /\ IsCont(bs[4])
    IN IF b1 < 128 THEN 1
       ELSE IF b1 >= 194 /\ b1 <= 223 THEN (IF c2 THEN 2 ELSE 0)
       ELSE IF b1 = 224 THEN (IF c2 /\ bs[2] >= 160 /\ c3 THEN 3 ELSE 0)
       ELSE IF b1 = 237 THEN (IF c2 /\ bs[2] <= 159 /\ c3 THEN 3 ELSE 0)
       ELSE IF b1 >= 225 /\ b1 <= 239 THEN (IF c2 /\ c3 THEN 3 ELSE 0)
       ELSE IF b1 = 240 THEN (IF c2 /\ bs[2] >= 144 /\ c3 /\ c4 THEN 4 ELSE 0)
       ELSE IF b1 = 244 THEN (IF c2 /\ bs[2] <= 143 /\ c3 /\ c4 THEN 4 ELSE 0)
       ELSE IF b1 >= 241 /\ b1 <= 243 THEN (IF c2 /\ c3 /\ c4 THEN 4 ELSE 0)
       ELSE 0

\* The code point of the well-formed sequence of length k at the head of bs.
Utf8CodePoint(bs, k) ==
    IF k = 1 THEN bs[1]
    ELSE IF k = 2 THEN (bs[1] - 192) * 64 + (bs[2] - 128)
    ELSE IF k = 3 THEN (bs[1] - 224) * 4096 + (bs[2] - 128) * 64 + (bs[3] - 128)
    ELSE (bs[1] - 240) * 262144 + (bs[2] - 128) * 4096
           + (bs[3] - 128) * 64 + (bs[4] - 128)

\* [exc, val]: the decoded str, or UnicodeDecodeError.
RECURSIVE Utf8Decode(_)
Utf8Decode(bs) ==
    IF Len(bs) = 0 THEN [exc |-> "none", val |-> <<>>]
    ELSE LET k == Utf8SeqLen(bs)
         IN IF k = 0 THEN [exc |-> "UnicodeDecodeError", val |-> <<>>]
            ELSE LET rest == Utf8Decode(SubSeq(bs, k + 1, Len(bs)))
                 IN IF rest.exc # "none" THEN rest
                    ELSE [exc |-> "none",
                          val |-> <<Utf8CodePoint(bs, k)>> \o rest.val]

(***************************************************************************)
(* DataLogRecord: classification and control payloads.  A record is        *)
(* [entry, timestamp, data].                                               *)
(***************************************************************************)
kControlStart == 0
kControlFinish == 1
kControlSetMetadata == 2

isControl(r) == r.entry = 0

getControlType(r) == r.data[1]

isStart(r) ==
    /\ r.entry = 0
    /\ Len(r.data) >= 17
    /\ getControlType(r) = kControlStart

\* isFinish with the length test of the two other control records (>=).
isFinish_atLeast5(r) ==
    /\ r.entry = 0
    /\ Len(r.data) >= 5
    /\ getControlType(r) = kControlFinish

isFinish(r) ==
    /\ r.entry = 0
    /\ Len(r.data) = 5
    /\ getControlType(r) = kControlFinish

isSetMetadata(r) ==
    /\ r.entry = 0
    /\ Len(r.data) >= 9
    /\ getControlType(r) = kControlSetMetadata

\* _readInnerString(pos) on payload d: [exc, val, end]
readInnerString(d, p) ==
    LET size == FromBytesLE(Slice(d, p, p + 4))
        end == p + 4 + size
    IN IF end > Len(d)
       THEN [exc |-> "TypeError", val |-> <<>>, end |-> end]
       ELSE LET u == Utf8Decode(Slice(d, p + 4, end))
            IN [exc |-> u.exc, val |-> u.val, end |-> end]

NoStartData == [entry |-> 0, name |-> <<>>, type |-> <<>>, metadata |-> <<>>]

\* getStartData(): [exc, val], val a StartRecordData [entry, name, type, metadata]
getStartData(r) ==
    IF ~isStart(r) THEN [exc |-> "TypeError", val |-> NoStartData]
    ELSE LET entry == FromBytesLE(Slice(r.data, 1, 5))
             name == readInnerString(r.data, 5)
         IN IF name.exc # "none" THEN [exc |-> name.exc, val |-> NoStartData]
            ELSE LET type == readInnerString(r.data, name.end)
                 IN IF type.exc # "none" THEN [exc |-> type.exc, val |-> NoStartData]
                    ELSE LET metadata == readInnerString(r.data, type.end)
                         IN IF metadata.exc # "none"
                            THEN [exc |-> metadata.exc, val |-> NoStartData]
                            ELSE [exc |-> "none",
                                  val |-> [entry |-> entry, name |-> name.val,
                                           type |-> type.val,
                                           metadata |-> metadata.val]]

\* getFinishEntry(): [exc, val]
getFinishEntry(r) ==
    IF ~isFinish(r) THEN [exc |-> "TypeError", val |-> 0]
    ELSE [exc |-> "none", val |-> FromBytesLE(Slice(r.data, 1, 5))]

\* getSetMetadataData(): [exc, val], val a MetadataRecordData [entry, metadata]
getSetMetadataData(r) ==
    IF ~isSetMetadata(r)
    THEN [exc |-> "TypeError", val |-> [entry |-> 0, metadata |-> <<>>]]
    ELSE LET entry == FromBytesLE(Slice(r.data, 1, 5))
             metadata == readInnerString(r.data, 5)
         IN [exc |-> metadata.exc,
             val |-> [entry |-> entry, metadata |-> metadata.val]]

(***************************************************************************)
(* DataLogRecord: data payloads.  A Python value is [kind, v], kind its    *)
(* type.  A float is kept as the fields of its IEEE-754 pattern: bits (the *)
(* width unpacked), sign, exp (biased) and frac (the fraction's bytes,     *)
(* most significant first).                                                *)
(***************************************************************************)
PyNone == [kind |-> "NoneType", v |-> <<>>]
PyBool(x) == [kind |-> "bool", v |-> x]
PyInt(x) == [kind |-> "int", v |-> x]
PyFloat(x) == [kind |-> "float", v |-> x]
PyStr(x) == [kind |-> "str", v |-> x]
PyList(x) == [kind |-> "list", v |-> x]

Raise(e) == [exc |-> e, val |-> PyNone]
Return(x) == [exc |-> "none", val |-> x]

\* int.from_bytes(bs, byteorder="little", signed=True)
FromBytesLESigned(bs) ==
    IF Len(bs) = 0 THEN 0
    ELSE IF bs[Len(bs)] < 128 THEN FromBytesLE(bs)
    ELSE -(FromBytesLE([i \in 1 .. Len(bs) |-> 255 - bs[i]]) + 1)

\* struct.Struct("<f").unpack on 4 bytes
UnpackFloat(bs) ==
    [bits |-> 32,
     sign |-> bs[4] \div 128,
     exp |-> (bs[4] % 128) * 2 + bs[3] \div 128,
     frac |-> <<bs[3] % 128, bs[2], bs[1]>>]

\* struct.Struct("<d").unpack on 8 bytes
UnpackDouble(bs) ==
    [bits |-> 64,
     sign |-> bs[8] \div 128,
     exp |-> (bs[8] % 128) * 16 + bs[7] \div 16,
     frac |-> <<bs[7] % 16, bs[6], bs[5], bs[4], bs[3], bs[2], bs[1]>>]

getBoolean(r) ==
    IF Len(r.data) # 1 THEN Raise("TypeError")
    ELSE Return(PyBool(r.data[1] # 0))

getInteger(r) ==
    IF Len(r.data) # 8 THEN Raise("TypeError")
    ELSE Return(PyInt(FromBytesLESigned(r.data)))

getFloat(r) ==
    IF Len(r.data) # 4 THEN Raise("TypeError")
    ELSE Return(PyFloat(UnpackFloat(r.data)))

getDouble(r) ==
    IF Len(r.data) # 8 THEN Raise("TypeError")
    ELSE Return(PyFloat(UnpackDouble(r.data)))

getString(r) ==
    LET u == Utf8Decode(r.data)
    IN IF u.exc # "none" THEN Raise(u.exc) ELSE Return(PyStr(u.val))

getBooleanArray(r) ==
    Return(PyList([i \in 1 .. Len(r.data) |-> PyBool(r.data[i] # 0)]))

\* The k-th item of w bytes of payload d (k from 1).
Item(d, k, w) == SubSeq(d, (k - 1) * w + 1, k * w)

\* array.array("l"): 8-byte items in native (little-endian) order.
getIntegerArray(r) ==
    IF Len(r.data) % 8 # 0 THEN Raise("TypeError")
    ELSE Return(PyList([k \in 1 .. Len(r.data) \div 8 |->
                          PyInt(FromBytesLESigned(Item(r.data, k, 8)))]))

getFloatArray(r) ==
    IF Len(r.data) % 4 # 0 THEN Raise("TypeError")
    ELSE Return(PyList([k \in 1 .. Len(r.data) \div 4 |->
                          PyFloat(UnpackFloat(Item(r.data, k, 4)))]))

getDoubleArray(r) ==
    IF Len(r.data) % 8 # 0 THEN Raise("TypeError")
    ELSE Return(PyList([k \in 1 .. Len(r.data) \div 8 |->
                          PyFloat(UnpackDouble(Item(r.data, k, 8)))]))

\* The loop of getStringArray: n strings still to read from position p.
RECURSIVE readStrings(_, _, _, _)
readStrings(d, p, n, acc) ==
    IF n = 0 THEN Return(PyList(acc))
    ELSE LET x == readInnerString(d, p)
         IN IF x.exc # "none" THEN Raise(x.exc)
            ELSE readStrings(d, x.end, n - 1, Append(acc, PyStr(x.val)))

\* size > (len - 4) / 4 compares an integer with a true quotient: it holds
\* when len < 4, and otherwise when size exceeds the floor of the quotient.
getStringArray(r) ==
    LET size == FromBytesLE(Slice(r.data, 0, 4))
    IN IF Len(r.data) < 4 \/ size > (Len(r.data) - 4) \div 4 THEN Raise("TypeError")
       ELSE readStrings(r.data, 4, size, <<>>)

(***************************************************************************)
(* log_helpers.extract_value_from_entry                                    *)
(***************************************************************************)
S_double == <<100, 111, 117, 98, 108, 101>>   \* "double"
S_int64 == <<105, 110, 116, 54, 52>>   \* "int64"
S_string == <<115, 116, 114, 105, 110, 103>>   \* "string"
S_json == <<106, 115, 111, 110>>   \* "json"
S_boolean == <<98, 111, 111, 108, 101, 97, 110>>   \* "boolean"
S_booleanArr == <<98, 111, 111, 108, 101, 97, 110, 91, 93>>   \* "boolean[]"
S_doubleArr == <<100, 111, 117, 98, 108, 101, 91, 93>>   \* "double[]"
S_floatArr == <<102, 108, 111, 97, 116, 91, 93>>   \* "float[]"
S_int64Arr == <<105, 110, 116, 54, 52, 91, 93>>   \* "int64[]"
S_stringArr == <<115, 116, 114, 105, 110, 103, 91, 93>>   \* "string[]"
S_float == <<102, 108, 111, 97, 116>>   \* "float"
S_systemTime == <<115, 121, 115, 116, 101, 109, 84, 105, 109, 101>>   \* "systemTime"

\* n as w decimal digits (code points).
RECURSIVE Digits(_, _)
Digits(n, w) ==
    IF w = 0 THEN <<>> ELSE Digits(n \div 10, w - 1) \o <<48 + (n % 10)>>

\* "{:%Y-%m-%d %H:%M:%S.%f}".format(datetime.fromtimestamp(us / 1000000)), for
\* us within one hour of the epoch and a local time zone of UTC.
FormatSystemTime(us) ==
    LET sec == us \div 1000000
        inHour == IF sec < 0 THEN 3600 + sec ELSE sec
    IN (IF sec < 0
        THEN <<49, 57, 54, 57, 45, 49, 50, 45, 51, 49, 32, 50, 51, 58>>
        ELSE <<49, 57, 55, 48, 45, 48, 49, 45, 48, 49, 32, 48, 48, 58>>)
         \o Digits(inHour \div 60, 2) \o <<58>>
         \o Digits(inHour % 60, 2) \o <<46>>
         \o Digits(us % 1000000, 6)

\* record.timestamp / 1000000, kept exact: whole seconds and microseconds.
Seconds(ts) == [whole |-> ts \div 1000000, micros |-> ts % 1000000]

\* The match statement over entry.type; an unmatched type leaves value None.
DecodeByType(type, r) ==
    IF type = S_double THEN getDouble(r)
    ELSE IF type = S_int64 THEN getInteger(r)
    ELSE IF type = S_string \/ type = S_json THEN getString(r)
    ELSE IF type = S_boolean THEN getBoolean(r)
    ELSE IF type = S_booleanArr THEN getBooleanArray(r)
    ELSE IF type = S_doubleArr THEN getDoubleArray(r)
    ELSE IF type = S_floatArr THEN getFloatArray(r)
    ELSE IF type = S_int64Arr THEN getIntegerArray(r)
    ELSE IF type = S_stringArr THEN getStringArray(r)
    ELSE Return(PyNone)

\* [exc, val]: val the list [timestamp, entry.name, value].
extract_value_from_entry(entry, r) ==
    LET timestamp == Seconds(r.timestamp)
        value ==
            IF entry.name = S_systemTime /\ entry.type = S_int64
            THEN LET n == getInteger(r)
                 IN IF n.exc # "none" THEN n
                    ELSE Return(PyStr(FormatSystemTime(n.val.v)))
            ELSE DecodeByType(entry.type, r)
    IN [exc |-> value.exc,
        val |-> [timestamp |-> timestamp, name |-> entry.name, value |-> value.val]]

(***************************************************************************)
(* log_helpers.convert_data_log_to_list: one action per branch of the loop *)
(* body, each a whole iteration on the record r the reader returned.       *)
(***************************************************************************)
ErrorMessage ==
    "Invalid file, verify that the file is a wpilog or try downloading the log file again."

\* entries.setdefault(data.entry, data): a live descriptor is kept.
PutEntry_setdefault(tbl, d) ==
    IF d.entry \in DOMAIN tbl THEN tbl
    ELSE [x \in DOMAIN tbl \cup {d.entry} |-> IF x = d.entry THEN d ELSE tbl[x]]

\* entries[data.entry] = data
PutEntry(tbl, d) ==
    [x \in DOMAIN tbl \cup {d.entry} |-> IF x = d.entry THEN d ELSE tbl[x]]

\* if entry in entries: del entries[entry]
DelEntry(tbl, id) == [x \in DOMAIN tbl \ {id} |-> tbl[x]]

\* The decoded metadata written onto the live descriptor.
KeepEntries_applied(tbl, md) ==
    IF md.entry \in DOMAIN tbl
    THEN [tbl EXCEPT ![md.entry].metadata = md.metadata]
    ELSE tbl

\* data = record.getSetMetadataData(): the result is bound and dropped.
KeepEntries(tbl, md) == tbl

\* The loop takes the next record from the reader.
Take(r) ==
    /\ pc = "loop"
    /\ nrec < MaxRecords
    /\ record' = r
    /\ nrec' = nrec + 1
    /\ UNCHANGED <<iterVars, headVars>>

\* except TypeError: error = error_message; any other exception leaves the call.
Except(exc) ==
    IF exc = "TypeError"
    THEN error' = ErrorMessage /\ UNCHANGED <<pc, raised>>
    ELSE pc' = "raised" /\ raised' = exc /\ UNCHANGED error

WalkStart(r) ==
    /\ Take(r)
    /\ isStart(r)
    /\ LET data == getStartData(r)
       IN IF data.exc = "none"
          THEN entries' = PutEntry(entries, data.val) /\ UNCHANGED <<error, pc, raised>>
          ELSE Except(data.exc) /\ UNCHANGED entries
    /\ UNCHANGED output

WalkFinish(r) ==
    /\ Take(r)
    /\ ~isStart(r) /\ isFinish(r)
    /\ LET entry == getFinishEntry(r)
       IN IF entry.exc = "none"
          THEN /\ entries' = IF entry.val \in DOMAIN entries
                             THEN DelEntry(entries, entry.val) ELSE entries
               /\ UNCHANGED <<error, pc, raised>>
          ELSE Except(entry.exc) /\ UNCHANGED entries
    /\ UNCHANGED output

WalkSetMetadata(r) ==
    /\ Take(r)
    /\ ~isStart(r) /\ ~isFinish(r) /\ isSetMetadata(r)
    /\ LET data == getSetMetadataData(r)
       IN IF data.exc = "none"
          THEN entries' = KeepEntries(entries, data.val) /\ UNCHANGED <<error, pc, raised>>
          ELSE Except(data.exc) /\ UNCHANGED entries
    /\ UNCHANGED output

WalkControl(r) ==
    /\ Take(r)
    /\ ~isStart(r) /\ ~isFinish(r) /\ ~isSetMetadata(r) /\ isControl(r)
    /\ error' = ErrorMessage
    /\ UNCHANGED <<entries, output, pc, raised>>

\* The else branch: no try around extract_value_from_entry.
WalkData(r) ==
    /\ Take(r)
    /\ ~isStart(r) /\ ~isFinish(r) /\ ~isSetMetadata(r) /\ ~isControl(r)
    /\ IF r.entry \notin DOMAIN entries
       THEN UNCHANGED <<output, pc, raised>>
       ELSE LET o == extract_value_from_entry(entries[r.entry], r)
            IN IF o.exc = "none"
               THEN output' = Append(output, o.val) /\ UNCHANGED <<pc, raised>>
               ELSE pc' = "raised" /\ raised' = o.exc /\ UNCHANGED output
    /\ UNCHANGED <<entries, error>>

\* The reader is exhausted: return [output, error].
WalkReturn ==
    /\ pc = "loop"
    /\ pc' = "returned"
    /\ UNCHANGED <<iterVars, headVars, entries, output, error, raised, record, nrec>>

(***************************************************************************)
(* Inputs: how the buffers the reader is given are built (the wire format  *)
(* of the log: global header, then records).                               *)
(***************************************************************************)
\* v as n little-endian bytes.
RECURSIVE ToBytesLE(_, _)
ToBytesLE(v, n) ==
    IF n = 0 THEN <<>> ELSE <<v % 256>> \o ToBytesLE(v \div 256, n - 1)

\* magic, version (two bytes), extra header length.
GlobalHeader(magic, vlo, vhi, extraLen) ==
    magic \o <<vlo, vhi>> \o ToBytesLE(extraLen, 4)

\* All byte strings over alphabet A of length at most n.
BytesUpTo(A, n) == UNION { [1 .. k -> A] : k \in 0 .. n }

\* Descriptor bytes 0 (widths 1,1,1), 1 (widths 2,1,1) and 148 (bit 7 set,
\* widths 1,2,2); as field bytes, sizes 0 and 1 fit and 148 does not.
Alphabet == {0, 1, 148}

NoWalk ==
    /\ entries = <<>>
    /\ output = <<>>
    /\ error = None
    /\ pc = "idle"
    /\ raised = "none"
    /\ record = None
    /\ nrec = 0

NoHead ==
    /\ validRes = "unset"
    /\ versionRes = -1

\* A reader over buffer b and the iterator __iter__ returns for it.
Reader(b) ==
    /\ buf = b
    /\ pos = IterStart(b)
    /\ lastResult = "none"
    /\ yielded = <<>>
    /\ reads = {}

\* Any body after a well-formed global header; shorter bodies with an extra
\* header length that may point past the end of the buffer; and buffers
\* shorter than the global header.
InitIter ==
    /\ \/ \E body \in BytesUpTo(Alphabet, MaxBody) :
             Reader(GlobalHeader(Magic, 0, 1, 0) \o body)
       \/ \E body \in BytesUpTo(Alphabet, MaxBody - 4) :
             \E x \in (1 .. MaxExtra) \cup {Len(body) + 1, Len(body) + 300} :
                Reader(GlobalHeader(Magic, 0, 1, x) \o body)
       \/ \E n \in 0 .. 11 :
             \E x \in 0 .. MaxExtra :
                Reader(SubSeq(GlobalHeader(Magic, 0, 1, 0) \o <<x, 0, 0, 0>>, 1, n))
    /\ given = None
    /\ NoHead
    /\ NoWalk

NextIter == IterNext

\* A for loop over the reader calls __next__ until it raises StopIteration.
SpecIter == InitIter /\ [][NextIter]_vars /\ WF_vars(IterNext)

(***************************************************************************)
(* The header accessors, applied to the reader's buffer.                   *)
(***************************************************************************)
CallIsValid ==
    /\ validRes' = IF isValid(buf) THEN "True" ELSE "False"
    /\ UNCHANGED <<iterVars, versionRes, walkVars>>

CallGetVersion ==
    /\ versionRes' = getVersion(buf)
    /\ UNCHANGED <<iterVars, validRes, walkVars>>

\* Magic tags: the right one, and ones wrong in the first byte, in the last
\* byte, and in case.
Magics ==
    { Magic,
      <<88, 80, 73, 76, 79, 71>>,
      <<87, 80, 73, 76, 79, 72>>,
      <<119, 112, 105, 108, 111, 103>> }

VersionBytes == {0, 1, 255}

\* Buffers of every length from empty to past the global header.
InitHeader ==
    /\ \E m \in Magics, vlo \in VersionBytes, vhi \in {0, 1, 2},
          n \in 0 .. 12 + MaxExtra :
          Reader(SubSeq(GlobalHeader(m, vlo, vhi, MaxExtra)
                          \o [i \in 1 .. MaxExtra |-> 65], 1, n))
    /\ given = None
    /\ NoHead
    /\ NoWalk

NextHeader == CallIsValid \/ CallGetVersion

SpecHeader == InitHeader /\ [][NextHeader]_vars

(***************************************************************************)
(* Framed inputs: buffers built by encoding records.                       *)
(***************************************************************************)
\* A record input is [e, s, t, id, ts, payload]: the three field widths and
\* the fields.
DescriptorByte(e, s, t) == (e - 1) + (s - 1) * 4 + (t - 1) * 16

EncodeRecord(r) ==
    <<DescriptorByte(r.e, r.s, r.t)>>
      \o ToBytesLE(r.id, r.e)
      \o ToBytesLE(Len(r.payload), r.s)
      \o ToBytesLE(r.ts, r.t)
      \o r.payload

RECURSIVE EncodeAll(_)
EncodeAll(rs) ==
    IF Len(rs) = 0 THEN <<>> ELSE EncodeRecord(Head(rs)) \o EncodeAll(Tail(rs))

\* v fits in n bytes.
Fits(v, n) == IF n >= 4 THEN TRUE ELSE v < 256^n

FieldVals == {0, 1, 255, 256, 65535, 65536, 16777215, 16777216, 2147483647}

LongPayload == [i \in 1 .. 256 |-> i % 256]

Payloads == { <<>>, <<7>>, <<1, 2, 3>>, LongPayload }

\* The record the reader is to return for input r.
RawOf(r) == [entry |-> r.id, timestamp |-> r.ts, data |-> r.payload]

Templates ==
    { [e |-> 1, s |-> 1, t |-> 1, id |-> 1, ts |-> 5, payload |-> <<>>],
      [e |-> 2, s |-> 1, t |-> 3, id |-> 300, ts |-> 70000, payload |-> <<1, 2>>],
      [e |-> 1, s |-> 2, t |-> 1, id |-> 0, ts |-> 9, payload |-> <<0, 0, 0, 0, 9>>],
      [e |-> 4, s |-> 4, t |-> 8, id |-> 65536, ts |-> 1, payload |-> <<3>>] }

SeqsUpTo(S, n) == UNION { [1 .. k -> S] : k \in 0 .. n }

\* Truncated tails: a proper prefix of a record, or up to 3 arbitrary bytes.
Tails ==
    UNION { { SubSeq(EncodeRecord(r), 1, n) : n \in 0 .. Len(EncodeRecord(r)) - 1 } :
            r \in Templates }
    \cup BytesUpTo({0, 255}, 3)

InitFrame ==
    /\ \/ \E e \in 1 .. 4, s \in 1 .. 4, t \in 1 .. 8 :
            \E id \in FieldVals, ts \in FieldVals, pl \in Payloads :
               /\ Fits(id, e) /\ Fits(Len(pl), s) /\ Fits(ts, t)
               /\ LET r == [e |-> e, s |-> s, t |-> t, id |-> id, ts |-> ts,
                            payload |-> pl]
                  IN /\ given = [kind |-> "roundtrip", recs |-> <<r>>, extra |-> 0]
                     /\ Reader(GlobalHeader(Magic, 0, 1, 0) \o EncodeRecord(r))
       \/ \E rs \in SeqsUpTo(Templates, MaxFramed), tail \in Tails, x \in {0, 2} :
            /\ given = [kind |-> "truncated", recs |-> rs, extra |-> x]
            /\ Reader(GlobalHeader(Magic, 0, 1, x) \o [i \in 1 .. x |-> 97]
                        \o EncodeAll(rs) \o tail)
    /\ NoHead
    /\ NoWalk

SpecFrame == InitFrame /\ [][NextIter]_vars /\ WF_vars(IterNext)

\* The records given.recs stands for, as the reader is to return them.
Expected == [i \in 1 .. Len(given.recs) |-> RawOf(given.recs[i])]

IsPrefix(a, b) == Len(a) <= Len(b) /\ a = SubSeq(b, 1, Len(a))

(***************************************************************************)
(* Records for the walk.  Strings are given as code points.                *)
(***************************************************************************)
\* UTF-8 of code points below 0x800.
RECURSIVE Utf8Encode(_)
Utf8Encode(cps) ==
    IF Len(cps) = 0 THEN <<>>
    ELSE (IF Head(cps) < 128 THEN <<Head(cps)>>
          ELSE <<192 + Head(cps) \div 64, 128 + (Head(cps) % 64)>>)
         \o Utf8Encode(Tail(cps))

\* Length-prefixed string.
LStr(cps) == ToBytesLE(Len(Utf8Encode(cps)), 4) \o Utf8Encode(cps)

\* d is [id, name, type, meta].
StartPayload(d) ==
    <<0>> \o ToBytesLE(d.id, 4) \o LStr(d.name) \o LStr(d.type) \o LStr(d.meta)

FinishPayload(id) == <<1>> \o ToBytesLE(id, 4)

SetMetadataPayload(id, meta) == <<2>> \o ToBytesLE(id, 4) \o LStr(meta)

Control(ts, payload) == [entry |-> 0, timestamp |-> ts, data |-> payload]

Data(id, ts, payload) == [entry |-> id, timestamp |-> ts, data |-> payload]

DeclA == [id |-> 1, name |-> <<97>>, type |-> S_double, meta |-> <<>>]
DeclB == [id |-> 1, name |-> <<98>>, type |-> S_boolean, meta |-> <<109>>]
DeclC == [id |-> 2, name |-> <<99>>, type |-> S_string, meta |-> <<233>>]

DeclareInputs == {DeclA, DeclB, DeclC}

\* 3.25 as a little-endian double.
Double325 == <<0, 0, 0, 0, 0, 0, 10, 64>>

StartRecords ==
    { Control(1000000, StartPayload(d)) : d \in DeclareInputs }
    \cup
    \* a declare whose metadata string is cut short
    { Control(1000001, SubSeq(StartPayload(DeclB), 1, Len(StartPayload(DeclB)) - 1)) }

FinishRecords == { Control(2000000, FinishPayload(1)) }

SetMetadataRecords ==
    { Control(2500000, SetMetadataPayload(1, <<122>>)),
      \* the string length exceeds the payload
      Control(2500001, <<2, 1, 0, 0, 0, 9, 0, 0, 0>>),
      \* the string is not UTF-8
      Control(2500002, <<2, 1, 0, 0, 0, 1, 0, 0, 0, 255>>) }

UnrecognizedRecords ==
    { Control(3000000, <<>>),
      Control(3000001, <<3, 1, 0, 0, 0>>),
      Control(3000002, <<1, 1, 0, 0, 0, 0>>),
      Control(3000003, SubSeq(StartPayload(DeclA), 1, 16)),
      Control(3000004, <<2, 1, 0, 0, 0, 0, 0, 0>>) }

DataRecords ==
    { Data(1, 4000000, Double325),
      Data(1, 4500000, <<1>>),
      Data(1, 4500001, <<1, 0>>),
      Data(2, 5000000, <<104, 105>>),
      Data(3, 5500000, <<1>>) }

Records ==
    StartRecords \cup FinishRecords \cup SetMetadataRecords
      \cup UnrecognizedRecords \cup DataRecords

NoIter ==
    /\ buf = <<>>
    /\ pos = 0
    /\ lastResult = "none"
    /\ yielded = <<>>
    /\ reads = {}
    /\ given = None

\* convert_data_log_to_list up to the loop.
Init ==
    /\ entries = <<>>
    /\ output = <<>>
    /\ error = None
    /\ pc = "loop"
    /\ raised = "none"
    /\ record = None
    /\ nrec = 0
    /\ NoIter
    /\ NoHead

Next ==
    \/ \E r \in Records :
         \/ WalkStart(r)
         \/ WalkFinish(r)
         \/ WalkSetMetadata(r)
         \/ WalkControl(r)
         \/ WalkData(r)
    \/ WalkReturn

Spec == Init /\ [][Next]_vars

(***************************************************************************)
(* extract_value_from_entry applied to one descriptor and one record.      *)
(***************************************************************************)
S_raw == <<114, 97, 119>>   \* "raw", a type outside the vocabulary

Vocabulary ==
    { S_boolean, S_int64, S_float, S_double, S_string, S_json,
      S_booleanArr, S_int64Arr, S_floatArr, S_doubleArr, S_stringArr }

\* [n=2][len=3]"abc"[len=2]"xy"
StringArrayPayload ==
    ToBytesLE(2, 4) \o LStr(<<97, 98, 99>>) \o LStr(<<120, 121>>)

ValuePayloads ==
    { <<>>, <<1>>, <<0>>, <<1, 0>>, <<104, 105>>, <<255>>, <<1, 2, 3>>,
      <<0, 0, 128, 63>>,                                  \* 1.0 as a float
      Double325,
      <<192, 177, 225, 3, 0, 0, 0, 0>>,                   \* 65123456
      <<255, 255, 255, 255, 255, 255, 255, 255>>,         \* -1
      Double325 \o Double325,
      StringArrayPayload,
      <<5, 0, 0, 0, 0, 0, 0, 0>> }                        \* count 5 in 8 bytes

\* Every 8-byte item of the payload is an int64 of magnitude below 2^31.
Int64Small(pl) ==
    IF Len(pl) % 8 # 0 THEN TRUE
    ELSE \A k \in 1 .. Len(pl) \div 8 :
            LET it == Item(pl, k, 8)
            IN \/ it[4] < 128 /\ \A j \in 5 .. 8 : it[j] = 0
               \/ it[4] >= 128 /\ \A j \in 5 .. 8 : it[j] = 255

InitValue ==
    /\ \E ty \in Vocabulary \cup {S_raw}, nm \in {<<97>>, S_systemTime},
          pl \in ValuePayloads :
          \* decoded integers stay below 2^31
          /\ IF ty = S_stringArr /\ Len(pl) >= 4 THEN pl[4] < 128 ELSE TRUE
          /\ IF ty \in {S_int64, S_int64Arr} THEN Int64Small(pl) ELSE TRUE
          /\ given = [entry |-> [entry |-> 1, name |-> nm, type |-> ty,
                                 metadata |-> <<>>],
                      rec |-> Data(1, 4500000, pl)]
    /\ entries = <<>>
    /\ output = <<>>
    /\ error = None
    /\ pc = "call"
    /\ raised = "none"
    /\ record = None
    /\ nrec = 0
    /\ buf = <<>>
    /\ pos = 0
    /\ lastResult = "none"
    /\ yielded = <<>>
    /\ reads = {}
    /\ NoHead

\* output.append(extract_value_from_entry(entry, record))
CallExtract ==
    /\ pc = "call"
    /\ LET o == extract_value_from_entry(given.entry, given.rec)
       IN IF o.exc = "none"
          THEN output' = Append(output, o.val) /\ pc' = "returned" /\ UNCHANGED raised
          ELSE pc' = "raised" /\ raised' = o.exc /\ UNCHANGED output
    /\ UNCHANGED <<iterVars, headVars, entries, error, record, nrec>>

NextValue == CallExtract

SpecValue == InitValue /\ [][NextValue]_vars

(***************************************************************************)
(* Claims about the walk.                                                  *)
(***************************************************************************)
\* The step is one iteration of the loop, on record'.
Iterated == nrec' = nrec + 1

\* The payload length does not fit the scalar type.
Mismatch(type, d) ==
    \/ type = S_double /\ Len(d) # 8
    \/ type = S_int64 /\ Len(d) # 8
    \/ type = S_float /\ Len(d) # 4
    \/ type = S_boolean /\ Len(d) # 1

\* One iteration on a data record, as C1 states it.
C1_Step ==
    (Iterated /\ record'.entry # 0) =>
        /\ (output' # output) <=> (record'.entry \in DOMAIN entries)
        /\ output' # output =>
             (Len(output') = Len(output) + 1 /\ SubSeq(output', 1, Len(output)) = output)
        /\ record'.entry \notin DOMAIN entries => error' = error

\* C1: during the walk, a data record yields exactly one Output Tuple iff its
\* streamId has a live descriptor at that point; a data record on an id
\* without one yields no Output Tuple and does not set the error indicator.
C1_DataYield == [][C1_Step]_vars

\* One iteration on a data record of a live stream whose payload length
\* does not fit the stream's valueType, as C2 states it.
C2_Step ==
    (/\ Iterated
     /\ record'.entry # 0
     /\ record'.entry \in DOMAIN entries
     /\ Mismatch(entries[record'.entry].type, record'.data)) =>
        /\ pc' = "loop"
        /\ raised' = "none"
        /\ error' = ErrorMessage
        /\ entries' = entries

\* C2: a payload whose length does not fit the live stream's valueType does
\* not abort the walk: the mismatch is reported through the error indicator
\* and the walk continues with the following records.
C2_MismatchReported == [][C2_Step]_vars

\* The payload has the shape of the type.
RightShape(type, d) ==
    IF type = S_boolean THEN Len(d) = 1
    ELSE IF type \in {S_int64, S_double} THEN Len(d) = 8
    ELSE IF type = S_float THEN Len(d) = 4
    ELSE IF type \in {S_string, S_json} THEN \A i \in 1 .. Len(d) : d[i] < 128
    ELSE IF type = S_booleanArr THEN TRUE
    ELSE IF type \in {S_int64Arr, S_doubleArr} THEN Len(d) % 8 = 0
    ELSE IF type = S_floatArr THEN Len(d) % 4 = 0
    ELSE d = StringArrayPayload

\* The case of the value for a stream of that name and type; a stream named
\* systemTime of type int64 is rendered as a string.
CaseOf(name, type) ==
    IF name = S_systemTime /\ type = S_int64 THEN "str"
    ELSE IF type = S_boolean THEN "bool"
    ELSE IF type = S_int64 THEN "int"
    ELSE IF type \in {S_float, S_double} THEN "float"
    ELSE IF type \in {S_string, S_json} THEN "str"
    ELSE "list"

\* C3: for every valueType of the vocabulary and a payload of the right
\* shape, the Output Tuple's value is populated with the case of that type;
\* a float stream with a 4-byte payload yields a 32-bit float.
C3_ValuePopulated ==
    (/\ pc # "call"
     /\ given.entry.type \in Vocabulary
     /\ RightShape(given.entry.type, given.rec.data)) =>
        /\ pc = "returned"
        /\ Len(output) = 1
        /\ output[1].value.kind = CaseOf(given.entry.name, given.entry.type)
        /\ given.entry.type = S_float => output[1].value.v.bits = 32

\* A control record that is no StreamDeclare, StreamRetire or MetadataUpdate.
Unrecognized(r) ==
    /\ r.entry = 0
    /\ \/ Len(r.data) = 0
       \/ /\ Len(r.data) > 0
          /\ ~(Len(r.data) >= 17 /\ r.data[1] = 0)
          /\ ~(Len(r.data) = 5 /\ r.data[1] = 1)
          /\ ~(Len(r.data) >= 9 /\ r.data[1] = 2)

\* One iteration on an unrecognized control record.
C5_Step ==
    (Iterated /\ Unrecognized(record')) =>
        /\ error' = ErrorMessage
        /\ entries' = entries
        /\ output' = output
        /\ pc' = "loop"
        /\ raised' = "none"

\* C5: a control record that is no StreamDeclare, StreamRetire or
\* MetadataUpdate sets the error indicator without raising, leaves the stream
\* table unchanged, emits no Output Tuple, and the walk goes on.
C5_UnrecognizedControl == [][C5_Step]_vars

\* C5 witness: with stream 1 live, a retire tag with a 6-byte payload was
\* processed and the walk is still in its loop with the error set.
C5_Witness ==
    /\ nrec >= 2
    /\ record.entry = 0
    /\ record.data = <<1, 1, 0, 0, 0, 0>>
    /\ 1 \in DOMAIN entries
    /\ error = ErrorMessage
    /\ pc = "loop"

\* The record is the StreamDeclare of one of the declare inputs.
IsDeclare(r) == r.entry = 0 /\ \E d \in DeclareInputs : StartPayload(d) = r.data

DeclareOf(r) == CHOOSE d \in DeclareInputs : StartPayload(d) = r.data

Descriptor(d) == [entry |-> d.id, name |-> d.name, type |-> d.type, metadata |-> d.meta]

\* One iteration, as C8 constrains it: a StreamDeclare installs exactly the
\* declared descriptor and leaves the others; a descriptor changes only by a
\* declare of its id; a data record on a live id is decoded with the table's
\* descriptor: it is emitted under that name with the case of that type, or,
\* when its length does not fit that type, not emitted at all.
C8_Step ==
    Iterated =>
        /\ IsDeclare(record') =>
             LET d == DeclareOf(record')
             IN /\ DOMAIN entries' = DOMAIN entries \cup {d.id}
                /\ entries'[d.id] = Descriptor(d)
                /\ \A x \in DOMAIN entries \ {d.id} : entries'[x] = entries[x]
        /\ \A x \in DOMAIN entries \cap DOMAIN entries' :
             entries'[x] # entries[x] =>
                (IsDeclare(record') /\ DeclareOf(record').id = x)
        /\ (record'.entry # 0 /\ record'.entry \in DOMAIN entries) =>
             LET e == entries[record'.entry]
             IN /\ entries' = entries
                /\ Mismatch(e.type, record'.data) => output' = output
                /\ output' # output =>
                     /\ Len(output') = Len(output) + 1
                     /\ output'[Len(output')].name = e.name
                     /\ output'[Len(output')].value.kind = CaseOf(e.name, e.type)
                /\ (~Mismatch(e.type, record'.data) /\ RightShape(e.type, record'.data))
                     => output' # output

IsMetadataUpdate(r) == r.entry = 0 /\ Len(r.data) >= 9 /\ r.data[1] = 2

\* The length prefix of its metadata string exceeds the payload.
MetadataCut(r) == 9 + FromBytesLE(SubSeq(r.data, 6, 9)) > Len(r.data)

\* One iteration on a MetadataUpdate record.
C9_Step ==
    (Iterated /\ IsMetadataUpdate(record')) =>
        /\ entries' = entries
        /\ output' = output
        /\ error' # error => (error' = ErrorMessage /\ MetadataCut(record'))

\* C9: a MetadataUpdate record, well-formed or not, for a live or an absent
\* id, changes neither the stream table nor the output; the error indicator
\* is set only when its payload fails to decode.
C9_MetadataNoEffect == [][C9_Step]_vars

\* C9 witness: a well-formed MetadataUpdate "z" for the live stream 1 was
\* processed and the descriptor still has the metadata "m" of its declare.
C9_Witness ==
    /\ nrec >= 2
    /\ record.entry = 0
    /\ record.data = SetMetadataPayload(1, <<122>>)
    /\ 1 \in DOMAIN entries
    /\ entries[1].metadata = <<109>>
    /\ error = None
    /\ pc = "loop"

(***************************************************************************)
(* Claims about the frame decoder and the global header.                   *)
(***************************************************************************)

\* C4: for a buffer with a correct global header, k fully framed records and
\* a truncated tail, iteration returns exactly those k records in order, then
\* signals the end, and never fails on the truncation.
C4_TruncatedTail ==
    given.kind = "truncated" =>
        /\ IsPrefix(yielded, Expected)
        /\ lastResult = "StopIteration" => yielded = Expected
        /\ lastResult # "IndexError"

\* C4 witness: two framed records were returned and the iteration stopped at a
\* tail that holds a whole header but not the whole payload.
C4_Witness ==
    /\ given.kind = "truncated"
    /\ Len(given.recs) = 2
    /\ lastResult = "StopIteration"
    /\ Len(yielded) = 2
    /\ Len(buf) - pos >= 8
    /\ Len(buf) - pos < 13

\* C6: a record encoded with field widths (e, s, t) is decoded by __next__ to
\* the original (streamId, timestamp, payload), and the cursor advances by
\* exactly 1 + e + s + t + len(payload).
C6_RoundTrip ==
    (given.kind = "roundtrip" /\ lastResult # "none") =>
        LET r == given.recs[1]
        IN /\ yielded = <<[entry |-> r.id, timestamp |-> r.ts, data |-> r.payload]>>
           /\ pos = 12 + 1 + r.e + r.s + r.t + Len(r.payload)

\* C6 witness: the widest header (4, 4, 8) with the largest id and a 256-byte
\* payload was decoded.
C6_Witness ==
    /\ given.kind = "roundtrip"
    /\ given.recs[1].e = 4 /\ given.recs[1].s = 4 /\ given.recs[1].t = 8
    /\ given.recs[1].id = 2147483647
    /\ given.recs[1].ts = 16777216
    /\ Len(given.recs[1].payload) = 256
    /\ lastResult = "record"
    /\ Len(yielded) = 1

\* C7: isValid() is true iff the buffer has at least 12 bytes, starts with
\* "WPILOG" and its little-endian u16 at bytes 6-7 is at least 0x0100; and
\* getVersion() is 0 on a buffer shorter than 12 bytes.
C7_IsValid ==
    /\ validRes # "unset" =>
         (validRes = "True" <=>
            /\ Len(buf) >= 12
            /\ \A i \in 1 .. 6 : buf[i] = Magic[i]
            /\ buf[7] + 256 * buf[8] >= 256)
    /\ (versionRes # -1 /\ Len(buf) < 12) => versionRes = 0

\* C7 witness: both accessors were applied to a 12-byte buffer of version
\* exactly 0x0100 and to nothing more.
C7_Witness ==
    /\ validRes = "True"
    /\ versionRes = 256
    /\ Len(buf) = 12

\* One __next__ call: a returned record moves the cursor forward by at least
\* 4 and not past the end, every index read is inside the buffer, and after
\* the end was signalled the cursor stays.
C10_Step ==
    /\ yielded' # yielded => (pos' >= pos + 4 /\ pos' <= Len(buf))
    /\ \A i \in reads' : 0 <= i /\ i < Len(buf)
    /\ lastResult' # "IndexError"
    /\ lastResult = "StopIteration" =>
         (pos' = pos /\ lastResult' = "StopIteration" /\ yielded' = yielded)

\* C10: for every buffer and starting position, iteration terminates: each
\* successful __next__ moves the cursor forward by at least 4 and leaves it
\* within the buffer, every index read is inside the buffer, the end is
\* signalled eventually, and after that the cursor no longer moves.
C10_Terminates == [][C10_Step]_vars /\ <>(lastResult = "StopIteration")

\* C10 witness: two records were returned, each moving the cursor, and then
\* the end was signalled with the cursor at the end of the buffer.
C10_Witness ==
    /\ Len(yielded) = 2
    /\ lastResult = "StopIteration"
    /\ pos = Len(buf)

====
